---- MODULE Spec2Model ----
\* A model of litebox's in-memory file system (src/litebox/src/fs/in_mem.rs):
\* the flat path-keyed entry store, the tree resolver, the permission model
\* and the two implemented operations, mkdir and rmdir.
EXTENDS Integers, Sequences, FiniteSets, TLC

\* ------------------------------------------------------------------ bounds

\* The store holds at most MaxEntries entries (the root included): mkdir is
\* not issued on a full store.
MaxEntries == 3

\* Path components, and the longest canonical path the callers name.
Names == {"a", "b"}
Keys == {<<>>} \cup {<<n>> : n \in Names} \cup {<<n, m>> : n \in Names, m \in Names}

\* The identities a call is made under and the modes mkdir is given.
UserIds == {0, 1000}
UserInfos == [user : UserIds, group : UserIds]
Modes == {448, 493, 511}   \* 0o700, 0o755, 0o777

\* ------------------------------------------------------------ mode flags

XOTH == 1
WOTH == 2
ROTH == 4
XGRP == 8
WGRP == 16
RGRP == 32
XUSR == 64
WUSR == 128
RUSR == 256
RWXU == RUSR + WUSR + XUSR

\* Mode::contains for a single-bit flag.
Contains(mode, flag) == (mode \div flag) % 2 = 1

\* ----------------------------------------------------------- permissions

Perms(mode, userinfo) == [mode |-> mode, userinfo |-> userinfo]

can_read_by(perms, current) ==
    IF perms.userinfo.user = current.user THEN Contains(perms.mode, RUSR)
    ELSE IF perms.userinfo.group = current.group THEN Contains(perms.mode, RGRP)
    ELSE Contains(perms.mode, ROTH)

\* A write check that lets a bit of any tier grant access.
can_write_by_any_tier(perms, current) ==
    \/ Contains(perms.mode, WUSR)
    \/ Contains(perms.mode, WGRP)
    \/ Contains(perms.mode, WOTH)

can_write_by(perms, current) ==
    IF perms.userinfo.user = current.user THEN Contains(perms.mode, WUSR)
    ELSE IF perms.userinfo.group = current.group THEN Contains(perms.mode, WGRP)
    ELSE Contains(perms.mode, WOTH)

\* An execute check that user 0 always passes.
can_execute_by_superuser(perms, current) ==
    IF current.user = 0 THEN TRUE
    ELSE IF perms.userinfo.user = current.user THEN Contains(perms.mode, XUSR)
    ELSE IF perms.userinfo.group = current.group THEN Contains(perms.mode, XGRP)
    ELSE Contains(perms.mode, XOTH)

can_execute_by(perms, current) ==
    IF perms.userinfo.user = current.user THEN Contains(perms.mode, XUSR)
    ELSE IF perms.userinfo.group = current.group THEN Contains(perms.mode, XGRP)
    ELSE Contains(perms.mode, XOTH)

can_read(current, perms) == can_read_by(perms, current)
can_write(current, perms) == can_write_by(perms, current)
can_execute(current, perms) == can_execute_by(perms, current)

\* ----------------------------------------------------------- entry store

Absent == [kind |-> "Absent"]
Dir(perms, children_count) ==
    [kind |-> "Dir", perms |-> perms, children_count |-> children_count]
File(perms) == [kind |-> "File", perms |-> perms]

RootKey == <<>>
RootMode == RWXU + RGRP + XGRP + ROTH + WOTH
RootOwner == [user |-> 0, group |-> 0]
DefaultUser == [user |-> 1000, group |-> 1000]

\* RootDir::new: the root directory alone, under the empty key.
RootDirNew ==
    [k \in Keys |-> IF k = RootKey THEN Dir(Perms(RootMode, RootOwner), 0) ELSE Absent]

Present(entries) == {k \in DOMAIN entries : entries[k].kind # "Absent"}

\* The components the resolver iterates over for a canonical path: the empty
\* component before the leading separator, then the real components.
normalized_components(path) == <<"">> \o path

\* ------------------------------------------------------------- resolver

NoParent == <<"none">>

\* The loop that takes the root for the parent whenever it skips a component.
RECURSIVE Walk_skip_to_root(_, _, _, _, _, _)
Walk_skip_to_root(entries, comps, i, collected, parent_path, current_user) ==
    IF i > Len(comps)
    THEN [err |-> "None", parent_path |-> parent_path, collected |-> collected]
    ELSE IF comps[i] = "" \/ comps[i] = ".."
    THEN IF collected # RootKey
         THEN [err |-> "Panic", parent_path |-> parent_path, collected |-> collected]
         ELSE Walk_skip_to_root(entries, comps, i + 1, collected, RootKey, current_user)
    ELSE IF entries[collected].kind = "Absent"
    THEN [err |-> "MissingComponent", parent_path |-> parent_path, collected |-> collected]
    ELSE IF entries[collected].kind = "File"
    THEN [err |-> "ComponentNotADirectory", parent_path |-> parent_path,
          collected |-> collected]
    ELSE IF ~can_execute(current_user, entries[collected].perms)
    THEN [err |-> "NoSearchPerms", parent_path |-> parent_path, collected |-> collected]
    ELSE Walk_skip_to_root(entries, comps, i + 1, Append(collected, comps[i]), collected,
                           current_user)

\* The loop without its search-permission check.
RECURSIVE Walk_unsearched(_, _, _, _, _, _)
Walk_unsearched(entries, comps, i, collected, parent_path, current_user) ==
    IF i > Len(comps)
    THEN [err |-> "None", parent_path |-> parent_path, collected |-> collected]
    ELSE IF comps[i] = "" \/ comps[i] = ".."
    THEN IF collected # RootKey
         THEN [err |-> "Panic", parent_path |-> parent_path, collected |-> collected]
         ELSE Walk_unsearched(entries, comps, i + 1, collected, parent_path, current_user)
    ELSE IF entries[collected].kind = "Absent"
    THEN [err |-> "MissingComponent", parent_path |-> parent_path, collected |-> collected]
    ELSE IF entries[collected].kind = "File"
    THEN [err |-> "ComponentNotADirectory", parent_path |-> parent_path,
          collected |-> collected]
    ELSE Walk_unsearched(entries, comps, i + 1, Append(collected, comps[i]), collected,
                         current_user)

\* The loop of parent_and_entry_mut from component i on. An empty or ".."
\* component is skipped, and asserted to come before every real one: collected
\* is the root key exactly while no real component has been seen.
RECURSIVE Walk(_, _, _, _, _, _)
Walk(entries, comps, i, collected, parent_path, current_user) ==
    IF i > Len(comps)
    THEN [err |-> "None", parent_path |-> parent_path, collected |-> collected]
    ELSE IF comps[i] = "" \/ comps[i] = ".."
    THEN IF collected # RootKey
         THEN [err |-> "Panic", parent_path |-> parent_path, collected |-> collected]
         ELSE Walk(entries, comps, i + 1, collected, parent_path, current_user)
    ELSE IF entries[collected].kind = "Absent"
    THEN [err |-> "MissingComponent", parent_path |-> parent_path, collected |-> collected]
    ELSE IF entries[collected].kind = "File"
    THEN [err |-> "ComponentNotADirectory", parent_path |-> parent_path,
          collected |-> collected]
    ELSE IF ~can_execute(current_user, entries[collected].perms)
    THEN [err |-> "NoSearchPerms", parent_path |-> parent_path, collected |-> collected]
    ELSE Walk(entries, comps, i + 1, Append(collected, comps[i]), collected, current_user)

\* parent_and_entry_mut on the components of its path: an error, or the
\* parent (its key) and the terminal entry (Absent when the store has none
\* under the collected key).
parent_and_entry_mut_of(entries, comps, current_user) ==
    LET w == Walk(entries, comps, 1, RootKey, NoParent, current_user)
    IN  IF w.err # "None"
        THEN [err |-> w.err, parent_path |-> NoParent, entry |-> Absent]
        ELSE [err |-> "None", parent_path |-> w.parent_path, entry |-> entries[w.collected]]

parent_and_entry_mut(entries, path, current_user) ==
    parent_and_entry_mut_of(entries, normalized_components(path), current_user)

\* The read-only resolver. Its loop carries the parent as the stored key and
\* the directory found under it, where the mutable one carries the key alone.
NoParentDir == [path |-> NoParent, dir |-> Absent]

\* The read-only loop that remembers the first directory it went through.
RECURSIVE Walk_ref_first_parent(_, _, _, _, _, _)
Walk_ref_first_parent(entries, comps, i, collected, parent_dir, current_user) ==
    IF i > Len(comps)
    THEN [err |-> "None", parent_dir |-> parent_dir, collected |-> collected]
    ELSE IF comps[i] = "" \/ comps[i] = ".."
    THEN IF collected # RootKey
         THEN [err |-> "Panic", parent_dir |-> parent_dir, collected |-> collected]
         ELSE Walk_ref_first_parent(entries, comps, i + 1, collected, parent_dir, current_user)
    ELSE IF entries[collected].kind = "Absent"
    THEN [err |-> "MissingComponent", parent_dir |-> parent_dir, collected |-> collected]
    ELSE IF entries[collected].kind = "File"
    THEN [err |-> "ComponentNotADirectory", parent_dir |-> parent_dir,
          collected |-> collected]
    ELSE IF ~can_execute(current_user, entries[collected].perms)
    THEN [err |-> "NoSearchPerms", parent_dir |-> parent_dir, collected |-> collected]
    ELSE Walk_ref_first_parent(entries, comps, i + 1, Append(collected, comps[i]),
                               IF parent_dir = NoParentDir
                               THEN [path |-> collected, dir |-> entries[collected]]
                               ELSE parent_dir,
                               current_user)

\* The loop of parent_and_entry from component i on.
RECURSIVE Walk_ref(_, _, _, _, _, _)
Walk_ref(entries, comps, i, collected, parent_dir, current_user) ==
    IF i > Len(comps)
    THEN [err |-> "None", parent_dir |-> parent_dir, collected |-> collected]
    ELSE IF comps[i] = "" \/ comps[i] = ".."
    THEN IF collected # RootKey
         THEN [err |-> "Panic", parent_dir |-> parent_dir, collected |-> collected]
         ELSE Walk_ref(entries, comps, i + 1, collected, parent_dir, current_user)
    ELSE IF entries[collected].kind = "Absent"
    THEN [err |-> "MissingComponent", parent_dir |-> parent_dir, collected |-> collected]
    ELSE IF entries[collected].kind = "File"
    THEN [err |-> "ComponentNotADirectory", parent_dir |-> parent_dir,
          collected |-> collected]
    ELSE IF ~can_execute(current_user, entries[collected].perms)
    THEN [err |-> "NoSearchPerms", parent_dir |-> parent_dir, collected |-> collected]
    ELSE Walk_ref(entries, comps, i + 1, Append(collected, comps[i]),
                  [path |-> collected, dir |-> entries[collected]], current_user)

\* parent_and_entry on the components of its path: an error, or the parent
\* (its key and directory) and the terminal entry.
parent_and_entry_of(entries, comps, current_user) ==
    LET w == Walk_ref(entries, comps, 1, RootKey, NoParentDir, current_user)
    IN  IF w.err # "None"
        THEN [err |-> w.err, parent_path |-> NoParent, parent_dir |-> Absent,
              entry |-> Absent]
        ELSE [err |-> "None", parent_path |-> w.parent_dir.path,
              parent_dir |-> w.parent_dir.dir, entry |-> entries[w.collected]]

parent_and_entry(entries, path, current_user) ==
    parent_and_entry_of(entries, normalized_components(path), current_user)

\* The two keys parent_and_entry_mut hands to get_many_key_value_mut once its
\* loop has ended with a parent: the parent's and the terminal's.
get_many_keys(entries, comps, current_user) ==
    LET w == Walk(entries, comps, 1, RootKey, NoParent, current_user)
    IN  IF w.err = "None" /\ w.parent_path # NoParent
        THEN <<w.parent_path, w.collected>>
        ELSE <<>>

\* ------------------------------------------------------------ operations

ParentOf(path) == SubSeq(path, 1, Len(path) - 1)

\* children_count is a u32; the model keeps CountBits bits of it, and
\* CountMax stands for u32::MAX.
CountBits == 2
CountMax == 2 ^ CountBits - 1

\* mkdir that takes an existing target for a new one.
mkdir_check_overwrite(entries, current_user, path) ==
    LET r == parent_and_entry_mut(entries, path, current_user)
    IN  IF r.err # "None" THEN r.err
        ELSE IF r.parent_path = NoParent THEN "AlreadyExists"
        ELSE IF ~can_write(current_user, entries[r.parent_path].perms) THEN "NoWritePerms"
        ELSE IF entries[r.parent_path].children_count = CountMax THEN "Panic"
        ELSE "Ok"

\* mkdir that checks write permission on the parent before the target.
mkdir_check_perms_first(entries, current_user, path) ==
    LET r == parent_and_entry_mut(entries, path, current_user)
    IN  IF r.err # "None" THEN r.err
        ELSE IF r.parent_path = NoParent THEN "AlreadyExists"
        ELSE IF ~can_write(current_user, entries[r.parent_path].perms) THEN "NoWritePerms"
        ELSE IF r.entry.kind # "Absent" THEN "AlreadyExists"
        ELSE IF entries[r.parent_path].children_count = CountMax THEN "Panic"
        ELSE "Ok"

\* mkdir, on the components of its path, up to its last early return and the
\* checked_add: the result the call is heading for ("Panic" when the
\* checked_add finds no room).
mkdir_check_of(entries, current_user, comps) ==
    LET r == parent_and_entry_mut_of(entries, comps, current_user)
    IN  IF r.err # "None" THEN r.err
        ELSE IF r.parent_path = NoParent THEN "AlreadyExists"
        ELSE IF r.entry.kind # "Absent" THEN "AlreadyExists"
        ELSE IF ~can_write(current_user, entries[r.parent_path].perms) THEN "NoWritePerms"
        ELSE IF entries[r.parent_path].children_count = CountMax THEN "Panic"
        ELSE "Ok"

\* mkdir without the overflow check on the count.
mkdir_check_unchecked(entries, current_user, path) ==
    LET r == parent_and_entry_mut(entries, path, current_user)
    IN  IF r.err # "None" THEN r.err
        ELSE IF r.parent_path = NoParent THEN "AlreadyExists"
        ELSE IF r.entry.kind # "Absent" THEN "AlreadyExists"
        ELSE IF ~can_write(current_user, entries[r.parent_path].perms) THEN "NoWritePerms"
        ELSE "Ok"

mkdir_check(entries, current_user, path) ==
    mkdir_check_of(entries, current_user, normalized_components(path))


\* mkdir that forgets to count the new child in its parent.
mkdir_commit_uncounted(entries, current_user, path, mode) ==
    [entries EXCEPT ![path] = Dir(Perms(mode, current_user), 0)]

\* mkdir that gives the new directory its parent's owner, not the caller's.
mkdir_commit_parent_owner(entries, current_user, path, mode) ==
    LET parent_path == ParentOf(path)
        counted == [entries EXCEPT ![parent_path].children_count = @ + 1]
    IN  [counted EXCEPT ![path] = Dir(Perms(mode, entries[parent_path].perms.userinfo), 0)]

\* mkdir's mutation: the parent's count goes up, the new directory goes in.
mkdir_commit(entries, current_user, path, mode) ==
    LET parent_path == ParentOf(path)
        counted == [entries EXCEPT ![parent_path].children_count = @ + 1]
    IN  [counted EXCEPT ![path] = Dir(Perms(mode, current_user), 0)]

\* rmdir that takes the root for its own parent instead of refusing it.
rmdir_check_root_unguarded(entries, current_user, path) ==
    LET r == parent_and_entry_mut(entries, path, current_user)
        parent_path == IF r.parent_path = NoParent THEN RootKey ELSE r.parent_path
    IN  IF r.err # "None" THEN r.err
        ELSE IF r.entry.kind = "Absent" THEN "NoSuchFileOrDirectory"
        ELSE IF r.entry.kind # "Dir" THEN "NotADirectory"
        ELSE IF r.entry.children_count > 0 THEN "NotEmpty"
        ELSE IF ~can_write(current_user, entries[parent_path].perms) THEN "NoWritePerms"
        ELSE IF entries[parent_path].children_count = 0 THEN "Panic"
        ELSE "Ok"

\* rmdir that checks write permission on the parent before emptiness.
rmdir_check_perms_first(entries, current_user, path) ==
    LET r == parent_and_entry_mut(entries, path, current_user)
    IN  IF r.err # "None" THEN r.err
        ELSE IF r.parent_path = NoParent THEN "Busy"
        ELSE IF r.entry.kind = "Absent" THEN "NoSuchFileOrDirectory"
        ELSE IF r.entry.kind # "Dir" THEN "NotADirectory"
        ELSE IF ~can_write(current_user, entries[r.parent_path].perms) THEN "NoWritePerms"
        ELSE IF r.entry.children_count > 0 THEN "NotEmpty"
        ELSE IF entries[r.parent_path].children_count = 0 THEN "Panic"
        ELSE "Ok"

\* rmdir that removes a directory whatever it still holds.
rmdir_check_nonempty(entries, current_user, path) ==
    LET r == parent_and_entry_mut(entries, path, current_user)
    IN  IF r.err # "None" THEN r.err
        ELSE IF r.parent_path = NoParent THEN "Busy"
        ELSE IF r.entry.kind = "Absent" THEN "NoSuchFileOrDirectory"
        ELSE IF r.entry.kind # "Dir" THEN "NotADirectory"
        ELSE IF ~can_write(current_user, entries[r.parent_path].perms) THEN "NoWritePerms"
        ELSE IF entries[r.parent_path].children_count = 0 THEN "Panic"
        ELSE "Ok"

\* rmdir, on the components of its path, up to its last early return and the
\* checked_sub ("Panic" when the
\* parent counts no child).
rmdir_check_of(entries, current_user, comps) ==
    LET r == parent_and_entry_mut_of(entries, comps, current_user)
    IN  IF r.err # "None" THEN r.err
        ELSE IF r.parent_path = NoParent THEN "Busy"
        ELSE IF r.entry.kind = "Absent" THEN "NoSuchFileOrDirectory"
        ELSE IF r.entry.kind # "Dir" THEN "NotADirectory"
        ELSE IF r.entry.children_count > 0 THEN "NotEmpty"
        ELSE IF ~can_write(current_user, entries[r.parent_path].perms) THEN "NoWritePerms"
        ELSE IF entries[r.parent_path].children_count = 0 THEN "Panic"
        ELSE "Ok"

rmdir_check(entries, current_user, path) ==
    rmdir_check_of(entries, current_user, normalized_components(path))

\* rmdir that takes two off the parent's count.
rmdir_commit_twice(entries, path) ==
    LET parent_path == ParentOf(path)
        counted == [entries EXCEPT ![parent_path].children_count = @ - 2]
    IN  [counted EXCEPT ![path] = Absent]

\* rmdir's mutation: the parent's count goes down, the entry goes out.
rmdir_commit(entries, path) ==
    LET parent_path == ParentOf(path)
        counted == [entries EXCEPT ![parent_path].children_count = @ - 1]
    IN  [counted EXCEPT ![path] = Absent]

\* ---------------------------------------------------------------- state

\* The calls of end-to-end scenario A, made under the default identity.
ScenarioA ==
    << [op |-> "mkdir", path |-> <<"a">>, mode |-> 493],
       [op |-> "mkdir", path |-> <<"a">>, mode |-> 493],
       [op |-> "rmdir", path |-> <<"a">>, mode |-> 0],
       [op |-> "rmdir", path |-> <<"a">>, mode |-> 0] >>

\* The threads sharing the handle, and what they ask for.
Threads == {"t1", "t2"}
NoThread == "none"
ThreadUsers == {RootOwner, [user |-> 1000, group |-> 0]}
ThreadKeys == {<<>>, <<"a">>, <<"a", "b">>}
ThreadModes == {448, 511}

VARIABLES
    entries,   \* RootDir.entries: canonical path -> entry
    last,      \* the last call made by the single caller and what it returned
    run,       \* the results so far, while the calls made since construction follow ScenarioA
    lock,      \* the thread holding FileSystem.root for writing
    pc,        \* where each thread is in its call
    req,       \* each thread's call, and its result once returned
    probe,     \* a permission query and its three answers
    walked,    \* a component sequence given to the resolver, and what it resolved to
    allocated, \* LocalPortAllocator.allocated
    live,      \* the LocalPort tokens handed out and not yet deallocated, per port
    port_last  \* the last call on the allocator and what it returned

net_vars == <<allocated, live, port_last>>
vars == <<entries, last, run, lock, pc, req, probe, walked, net_vars>>

NoCall == [op |-> "none"]
Call(op, user, path, mode, result) ==
    [op |-> op, user |-> user, path |-> path, mode |-> mode, result |-> result]

NoProbe == [state |-> "none"]

NoPortCall == [op |-> "none"]
PortCall(op, port, result, allocated_before, live_before) ==
    [op |-> op, port |-> port, result |-> result,
     allocated_before |-> allocated_before, live_before |-> live_before]

\* The allocator's ports (NonZeroU16) and its ephemeral range; the model
\* keeps the shape and shrinks the numbers: PortMax stands for 65535 and
\* EphemeralMin for 49152.
PortMax == 6
EphemeralMin == 4
Ports == 1..PortMax
EphemeralRange == EphemeralMin..PortMax

\* LocalPortAllocator::new, with no token handed out.
LocalPortAllocatorNew ==
    /\ allocated = {}
    /\ live = [p \in Ports |-> 0]
    /\ port_last = NoPortCall

\* The state the specifications about something else leave alone.
Idle ==
    /\ probe = NoProbe
    /\ walked = NoProbe
    /\ LocalPortAllocatorNew

FileSystemNew ==
    /\ entries = RootDirNew
    /\ last = NoCall
    /\ run = [on |-> TRUE, results |-> <<>>]
    /\ lock = NoThread
    /\ pc = [t \in Threads |-> "idle"]
    /\ req = [t \in Threads |-> NoCall]

\* run after a call: its result is appended while the calls follow ScenarioA.
Follow(r, op, current_user, path, mode, result) ==
    LET n == Len(r.results) + 1
    IN  IF /\ r.on
           /\ n <= Len(ScenarioA)
           /\ current_user = DefaultUser
           /\ ScenarioA[n] = [op |-> op, path |-> path, mode |-> mode]
        THEN [on |-> TRUE, results |-> Append(r.results, result)]
        ELSE [on |-> FALSE, results |-> <<>>]

\* ------------------------------------------------------- a single caller

Init ==
    /\ FileSystemNew
    /\ Idle

\* mkdir that counts the new child before it knows it may add one.
Mkdir_counts_first(current_user, path, mode) ==
    /\ LET result == mkdir_check(entries, current_user, path)
       IN  /\ entries' = IF result = "Ok"
                         THEN mkdir_commit(entries, current_user, path, mode)
                         ELSE IF result = "NoWritePerms"
                         THEN [entries EXCEPT ![ParentOf(path)].children_count = @ + 1]
                         ELSE entries
           /\ last' = Call("mkdir", current_user, path, mode, result)
           /\ run' = Follow(run, "mkdir", current_user, path, mode, result)
    /\ UNCHANGED <<lock, pc, req, probe, walked, net_vars>>

\* mkdir, from root.write() to its return.
Mkdir(current_user, path, mode) ==
    /\ LET result == mkdir_check(entries, current_user, path)
       IN  /\ entries' = IF result = "Ok"
                         THEN mkdir_commit(entries, current_user, path, mode)
                         ELSE entries
           /\ last' = Call("mkdir", current_user, path, mode, result)
           /\ run' = Follow(run, "mkdir", current_user, path, mode, result)
    /\ UNCHANGED <<lock, pc, req, probe, walked, net_vars>>

Rmdir(current_user, path) ==
    /\ LET result == rmdir_check(entries, current_user, path)
       IN  /\ entries' = IF result = "Ok" THEN rmdir_commit(entries, path) ELSE entries
           /\ last' = Call("rmdir", current_user, path, 0, result)
           /\ run' = Follow(run, "rmdir", current_user, path, 0, result)
    /\ UNCHANGED <<lock, pc, req, probe, walked, net_vars>>

\* mkdir is not issued on a full store.
HasRoom == Cardinality(Present(entries)) < MaxEntries

Next ==
    \/ \E u \in UserInfos, p \in Keys, m \in Modes : HasRoom /\ Mkdir(u, p, m)
    \/ \E u \in UserInfos, p \in Keys : Rmdir(u, p)

Spec == Init /\ [][Next]_vars

\* ------------------------------------------------- threads on one handle

\* Every call of a thread runs between root.write() and the drop of the guard
\* it returns. A thread makes one call, and the threads are joined before
\* any of them makes another.

\* A write lock handed out while another thread holds it.
write_shared(l) == TRUE

\* RwLock::write: granted when nobody holds the lock.
write_available(l) == l = NoThread

InFlight == {t \in Threads : pc[t] \in {"write", "resolve", "commit"}}

\* What the call would return if it ran now, alone.
Solo(op, current_user, path) ==
    IF op = "mkdir" THEN mkdir_check(entries, current_user, path)
    ELSE rmdir_check(entries, current_user, path)

\* A thread enters mkdir or rmdir and blocks in root.write(). With the call it
\* notes what the call would return if it ran alone, the count of the
\* target's parent, and whether another call is in flight.
TCall(t, op, current_user, path, mode) ==
    /\ pc[t] = "idle"
    /\ pc' = [pc EXCEPT ![t] = "write"]
    /\ req' = [u \in Threads |->
                 IF u = t
                 THEN [op |-> op, user |-> current_user, path |-> path, mode |-> mode,
                       result |-> "pending",
                       solo |-> Solo(op, current_user, path),
                       count0 |-> IF path # RootKey /\ entries[ParentOf(path)].kind = "Dir"
                                  THEN entries[ParentOf(path)].children_count ELSE 0,
                       raced |-> InFlight # {}]
                 ELSE IF u \in InFlight THEN [req[u] EXCEPT !.raced = TRUE]
                 ELSE req[u]]
    /\ UNCHANGED <<entries, last, run, lock, probe, walked, net_vars>>

TAcquire(t) ==
    /\ pc[t] = "write"
    /\ write_available(lock)
    /\ lock' = t
    /\ pc' = [pc EXCEPT ![t] = "resolve"]
    /\ UNCHANGED <<entries, last, run, req, probe, walked, net_vars>>

\* Resolution and the checks with an error return that keeps the guard.
TResolve_keeps_guard(t) ==
    /\ pc[t] = "resolve"
    /\ LET result == Solo(req[t].op, req[t].user, req[t].path)
       IN  IF result = "Ok"
           THEN /\ pc' = [pc EXCEPT ![t] = "commit"]
                /\ UNCHANGED <<req, lock>>
           ELSE /\ pc' = [pc EXCEPT ![t] = "returned"]
                /\ req' = [req EXCEPT ![t].result = result]
                /\ UNCHANGED lock
    /\ UNCHANGED <<entries, last, run, probe, walked, net_vars>>

\* Resolution and the checks: an error returns at once and drops the guard.
TResolve(t) ==
    /\ pc[t] = "resolve"
    /\ LET result == Solo(req[t].op, req[t].user, req[t].path)
       IN  IF result = "Ok"
           THEN /\ pc' = [pc EXCEPT ![t] = "commit"]
                /\ UNCHANGED <<req, lock>>
           ELSE /\ pc' = [pc EXCEPT ![t] = "returned"]
                /\ req' = [req EXCEPT ![t].result = result]
                /\ lock' = NoThread
    /\ UNCHANGED <<entries, last, run, probe, walked, net_vars>>

\* The mutation, Ok(()) and the guard's drop.
TCommit(t) ==
    /\ pc[t] = "commit"
    /\ entries' = IF req[t].op = "mkdir"
                  THEN mkdir_commit(entries, req[t].user, req[t].path, req[t].mode)
                  ELSE rmdir_commit(entries, req[t].path)
    /\ pc' = [pc EXCEPT ![t] = "returned"]
    /\ req' = [req EXCEPT ![t].result = "Ok"]
    /\ lock' = NoThread
    /\ UNCHANGED <<last, run, probe, walked, net_vars>>

TJoin ==
    /\ InFlight = {}
    /\ \E t \in Threads : pc[t] = "returned"
    /\ pc' = [t \in Threads |-> "idle"]
    /\ req' = [t \in Threads |-> NoCall]
    /\ UNCHANGED <<entries, last, run, lock, probe, walked, net_vars>>

ThreadNext ==
    \/ \E t \in Threads, u \in ThreadUsers, p \in ThreadKeys, m \in ThreadModes :
          TCall(t, "mkdir", u, p, m)
    \/ \E t \in Threads, u \in ThreadUsers, p \in ThreadKeys : TCall(t, "rmdir", u, p, 0)
    \/ \E t \in Threads : TAcquire(t)
    \/ \E t \in Threads : TResolve(t)
    \/ \E t \in Threads : TCommit(t)
    \/ TJoin

ThreadSpec == Init /\ [][ThreadNext]_vars

\* ------------------------------------------- threads calling on and on

\* A thread that has its result is free to call again, whatever the other
\* threads are doing.
TReturn(t) ==
    /\ pc[t] = "returned"
    /\ pc' = [pc EXCEPT ![t] = "idle"]
    /\ req' = [req EXCEPT ![t] = NoCall]
    /\ UNCHANGED <<entries, last, run, lock, probe, walked, net_vars>>

FairUsers == {RootOwner, DefaultUser}
FairModes == {448}

FairNext ==
    \/ \E t \in Threads, u \in FairUsers, p \in ThreadKeys, m \in FairModes :
          TCall(t, "mkdir", u, p, m)
    \/ \E t \in Threads, u \in FairUsers, p \in ThreadKeys : TCall(t, "rmdir", u, p, 0)
    \/ \E t \in Threads : TAcquire(t)
    \/ \E t \in Threads : TResolve(t)
    \/ \E t \in Threads : TCommit(t)
    \/ \E t \in Threads : TReturn(t)

\* A fair lock: a thread blocked in root.write() gets the lock if the lock
\* keeps coming free. A thread holding the guard keeps running.
FairThreadSpec ==
    /\ Init
    /\ [][FairNext]_vars
    /\ \A t \in Threads : SF_vars(TAcquire(t))
    /\ \A t \in Threads : WF_vars(TResolve(t)) /\ WF_vars(TCommit(t))

\* ---------------------------------------------------- permission queries

\* Every mode of the nine permission bits.
AllModes == 0..(RUSR + RUSR - 1)

PermInit ==
    /\ FileSystemNew
    /\ walked = NoProbe
    /\ LocalPortAllocatorNew
    /\ probe \in [state : {"asked"}, perms : [mode : AllModes, userinfo : UserInfos],
                  current : UserInfos, access : {"none"}, granted : {FALSE}]

Answer(access, granted) ==
    /\ probe.state = "asked"
    /\ probe' = [probe EXCEPT !.state = "answered", !.access = access, !.granted = granted]
    /\ UNCHANGED <<entries, last, run, lock, pc, req, walked, net_vars>>

CanRead == Answer("read", can_read(probe.current, probe.perms))
CanWrite == Answer("write", can_write(probe.current, probe.perms))
CanExecute == Answer("execute", can_execute(probe.current, probe.perms))

PermNext == CanRead \/ CanWrite \/ CanExecute

PermSpec == PermInit /\ [][PermNext]_vars

\* ------------------------------------------------ one call on any tree

\* Entry has two variants, and the resolver and both operations branch on
\* them, though no operation of this file stores a File yet (open is todo!()).
\* To cover those branches a call is made on each tree-shaped store of up to
\* MaxEntries entries: the root as RootDir::new builds it, every other entry a
\* Dir or a File under a stored Dir, every count the number of children.
TreeModes == {448, 493}
TreeOwners == {RootOwner, DefaultUser}
TreeEntries ==
    {Dir(Perms(m, o), 0) : m \in TreeModes, o \in TreeOwners}
        \cup {File(Perms(m, o)) : m \in TreeModes, o \in TreeOwners}

Shapes ==
    {S \in SUBSET Keys :
        /\ RootKey \in S
        /\ Cardinality(S) <= MaxEntries
        /\ \A k \in S : k # RootKey => ParentOf(k) \in S}

TreeOf(S, f) ==
    LET count(d) == Cardinality({c \in S : c # RootKey /\ ParentOf(c) = d})
    IN  [k \in Keys |->
            IF k = RootKey THEN Dir(Perms(RootMode, RootOwner), count(k))
            ELSE IF k \notin S THEN Absent
            ELSE IF f[k].kind = "File" THEN f[k]
            ELSE Dir(f[k].perms, count(k))]

Trees ==
    UNION {{TreeOf(S, f) :
               f \in {g \in [S \ {RootKey} -> TreeEntries] :
                        \A k \in S \ {RootKey} :
                            ParentOf(k) # RootKey => g[ParentOf(k)].kind = "Dir"}} :
           S \in Shapes}

TreeInit ==
    /\ entries \in Trees
    /\ last = NoCall
    /\ run = [on |-> FALSE, results |-> <<>>]
    /\ lock = NoThread
    /\ pc = [t \in Threads |-> "idle"]
    /\ req = [t \in Threads |-> NoCall]
    /\ Idle

TreeNext ==
    \/ \E u \in UserInfos, p \in Keys, m \in TreeModes : last = NoCall /\ Mkdir(u, p, m)
    \/ \E u \in UserInfos, p \in Keys : last = NoCall /\ Rmdir(u, p)

TreeSpec == TreeInit /\ [][TreeNext]_vars

\* ------------------------------------------------- a directory filling up

\* One more child name than children_count can count, directly under the
\* root, made and removed by the root's owner.
WideNames == {ToString(i) : i \in 1..(CountMax + 1)}
WideKeys == {RootKey} \cup {<<n>> : n \in WideNames}

OverflowInit ==
    /\ entries = [k \in WideKeys |->
                    IF k = RootKey THEN Dir(Perms(RootMode, RootOwner), 0) ELSE Absent]
    /\ last = NoCall
    /\ run = [on |-> FALSE, results |-> <<>>]
    /\ lock = NoThread
    /\ pc = [t \in Threads |-> "idle"]
    /\ req = [t \in Threads |-> NoCall]
    /\ Idle

OverflowNext ==
    \/ \E p \in WideKeys : Mkdir(RootOwner, p, RWXU)
    \/ \E p \in WideKeys : Rmdir(RootOwner, p)

OverflowSpec == OverflowInit /\ [][OverflowNext]_vars

\* ------------------------------------------ the resolver on any components

\* The resolver takes whatever components the normalized path yields; its
\* comment expects empty and ".." components at the start only. It is applied
\* to the components of a canonical path behind up to LeadMax of those, on
\* each tree-shaped store, in its mutable and in its read-only variant, and
\* so are the checks of mkdir and rmdir.
LeadMax == 2
Leads == UNION {[1..n -> {"", ".."}] : n \in 0..LeadMax}

ResolveInit ==
    /\ entries \in Trees
    /\ last = NoCall
    /\ run = [on |-> FALSE, results |-> <<>>]
    /\ lock = NoThread
    /\ pc = [t \in Threads |-> "idle"]
    /\ req = [t \in Threads |-> NoCall]
    /\ probe = NoProbe
    /\ LocalPortAllocatorNew
    /\ walked \in [state : {"asked"}, lead : Leads, path : Keys, user : UserInfos]

Resolve ==
    /\ walked.state = "asked"
    /\ LET comps == walked.lead \o walked.path
       IN  walked' = [state |-> "resolved", lead |-> walked.lead, path |-> walked.path,
                      user |-> walked.user,
                      found |-> parent_and_entry_mut_of(entries, comps, walked.user),
                      found_dir |->
                          LET keys == get_many_keys(entries, comps, walked.user)
                          IN  IF keys = <<>> THEN Absent ELSE entries[keys[1]],
                      looked |-> get_many_keys(entries, comps, walked.user),
                      read |-> parent_and_entry_of(entries, comps, walked.user),
                      mkdir |-> mkdir_check_of(entries, walked.user, comps),
                      rmdir |-> rmdir_check_of(entries, walked.user, comps)]
    /\ UNCHANGED <<entries, last, run, lock, pc, req, probe, net_vars>>

ResolveNext == Resolve

ResolveSpec == ResolveInit /\ [][ResolveNext]_vars

\* ------------------------------------------------------ the port allocator

fs_vars == <<entries, last, run, lock, pc, req, probe, walked>>

Token(port) == [kind |-> "Ok", port |-> port]
AlreadyInUse(port) == [kind |-> "AlreadyInUse", port |-> port]
NoAvailableFreePorts == [kind |-> "NoAvailableFreePorts", port |-> 0]

\* specific_port that hands out a token whatever the set says.
specific_port_always(alloc, port) ==
    [allocated |-> alloc \cup {port}, result |-> Token(port)]

\* specific_port: HashSet::insert is true exactly when the port was not in the
\* set. The allocator after the call, and what the call returns.
specific_port(alloc, port) ==
    IF port \notin alloc
    THEN [allocated |-> alloc \cup {port}, result |-> Token(port)]
    ELSE [allocated |-> alloc, result |-> AlreadyInUse(port)]

\* The number of random draws ephemeral_port makes before it scans.
EphemeralTries == 100

\* The scan that gives up one port early.
RECURSIVE ephemeral_scan_short(_, _)
ephemeral_scan_short(alloc, port) ==
    IF port >= PortMax THEN [allocated |-> alloc, result |-> NoAvailableFreePorts]
    ELSE LET r == specific_port(alloc, port)
         IN  IF r.result.kind = "Ok" THEN r ELSE ephemeral_scan_short(r.allocated, port + 1)

\* The second loop of ephemeral_port: the ports of the range in ascending
\* order, the first that specific_port grants; none left is the error.
RECURSIVE ephemeral_scan(_, _)
ephemeral_scan(alloc, port) ==
    IF port > PortMax THEN [allocated |-> alloc, result |-> NoAvailableFreePorts]
    ELSE LET r == specific_port(alloc, port)
         IN  IF r.result.kind = "Ok" THEN r ELSE ephemeral_scan(r.allocated, port + 1)

\* One iteration of the first loop of ephemeral_port: a draw is any port of
\* the range (the generator is not modelled, only its range); a granted draw
\* returns from the call, a refused one leaves the loop going.
ephemeral_try(alloc) ==
    LET drawn == {specific_port(alloc, d) : d \in EphemeralRange}
        granted == {r \in drawn : r.result.kind = "Ok"}
    IN  [returned |-> granted, going |-> {r.allocated : r \in drawn \ granted}]

\* n iterations of that loop in a row, as the first half of them followed by
\* the second half from wherever the first half left the loop going.
RECURSIVE ephemeral_tries(_, _)
ephemeral_tries(alloc, n) ==
    IF n = 0 THEN [returned |-> {}, going |-> {alloc}]
    ELSE IF n = 1 THEN ephemeral_try(alloc)
    ELSE LET half == n \div 2
             first == ephemeral_tries(alloc, half)
             rest == {ephemeral_tries(a, n - half) : a \in first.going}
         IN  [returned |-> first.returned \cup UNION {r.returned : r \in rest},
              going |-> UNION {r.going : r \in rest}]

\* ephemeral_port: every way the call can end, the draws first and the scan
\* for whatever the draws left going.
ephemeral_port(alloc) ==
    LET tried == ephemeral_tries(alloc, EphemeralTries)
    IN  tried.returned \cup {ephemeral_scan(a, EphemeralMin) : a \in tried.going}

\* deallocate: HashSet::remove, and the assertion that it removed something.
deallocate(alloc, port) ==
    [allocated |-> alloc \ {port},
     result |-> [kind |-> IF port \in alloc THEN "Ok" ELSE "Panic", port |-> port]]

\* A call's effect on the allocator and on the tokens its callers hold.
Returned(op, port, r) ==
    /\ allocated' = r.allocated
    /\ live' = IF op = "deallocate" THEN [live EXCEPT ![port] = @ - 1]
               ELSE IF r.result.kind = "Ok" THEN [live EXCEPT ![r.result.port] = @ + 1]
               ELSE live
    /\ port_last' = PortCall(op, port, r.result, allocated, live)
    /\ UNCHANGED fs_vars

SpecificPort(port) == Returned("specific_port", port, specific_port(allocated, port))

EphemeralPort == \E r \in ephemeral_port(allocated) : Returned("ephemeral_port", 0, r)

\* A LocalPort is neither Clone nor Copy: only a token a caller still holds
\* can be given back, and giving it back consumes it.
Deallocate(port) ==
    /\ live[port] > 0
    /\ Returned("deallocate", port, deallocate(allocated, port))

PortNext ==
    \/ \E p \in Ports : SpecificPort(p)
    \/ EphemeralPort
    \/ \E p \in Ports : Deallocate(p)

PortSpec == Init /\ [][PortNext]_vars

\* --------------------------------------------- claims: permission model

\* The weight of the lowest bit of the one tier that applies.
C9_Tier(perms, current) ==
    IF perms.userinfo.user = current.user THEN 64
    ELSE IF perms.userinfo.group = current.group THEN 8
    ELSE 1

C9_Bit(access) == IF access = "read" THEN 4 ELSE IF access = "write" THEN 2 ELSE 1

\* C9: each of can_read / can_write / can_execute answers with the bit of
\* exactly one tier: the user's if the user ids are equal, else the group's
\* if the group ids are equal, else other's; no other tier's bit and no user
\* id 0 grants anything.
C9_OneTierDecides ==
    probe.state = "answered" =>
        LET bits == (probe.perms.mode \div C9_Tier(probe.perms, probe.current)) % 8
        IN  probe.granted <=> ((bits \div C9_Bit(probe.access)) % 2 = 1)

\* User 0 asks to search what another user owns with all of rwx for its
\* owner and group and nothing for other, and is refused.
C9_Witness ==
    /\ probe.state = "answered"
    /\ probe.access = "execute"
    /\ probe.current = [user |-> 0, group |-> 0]
    /\ probe.perms = Perms(504, [user |-> 1000, group |-> 1000])
    /\ ~probe.granted

\* ------------------------------------------------------- claims: threads

\* Two different threads whose calls overlapped and have both returned.
Raced(t1, t2) ==
    /\ t1 # t2
    /\ pc[t1] = "returned" /\ pc[t2] = "returned"
    /\ req[t1].raced /\ req[t2].raced

\* C2: two threads' concurrent mkdir calls for one path, each of which would
\* succeed alone, end with exactly one Ok and one AlreadyExists, and the
\* parent's children_count is one more than before.
C2_OneMkdirWins ==
    \A t1 \in Threads, t2 \in Threads :
        ( /\ Raced(t1, t2)
          /\ req[t1].op = "mkdir" /\ req[t2].op = "mkdir"
          /\ req[t1].path = req[t2].path
          /\ req[t1].solo = "Ok" /\ req[t2].solo = "Ok" ) =>
        /\ \/ req[t1].result = "Ok" /\ req[t2].result = "AlreadyExists"
           \/ req[t1].result = "AlreadyExists" /\ req[t2].result = "Ok"
        /\ entries[ParentOf(req[t1].path)].children_count = req[t1].count0 + 1
        /\ req[t2].count0 = req[t1].count0

C2_Witness ==
    \E t1 \in Threads, t2 \in Threads :
        /\ Raced(t1, t2)
        /\ req[t1].op = "mkdir" /\ req[t2].op = "mkdir"
        /\ req[t1].path = req[t2].path
        /\ req[t1].solo = "Ok" /\ req[t2].solo = "Ok"
        /\ req[t1].user # req[t2].user
        /\ req[t1].result = "Ok"

\* The case of C8: rmdir(D) by thread a and mkdir(D/x) by thread b, concurrent
\* and both returned, D being a directory when rmdir was called (rmdir alone
\* would have got past the check that D is one).
C8_Case(a, b) ==
    /\ Raced(a, b)
    /\ req[a].op = "rmdir" /\ req[b].op = "mkdir"
    /\ req[b].path # RootKey
    /\ req[a].path = ParentOf(req[b].path)
    /\ req[a].solo \in {"Ok", "NotEmpty", "NoWritePerms"}

C8_NoOrphan(a, b) ==
    ~(entries[req[b].path].kind # "Absent" /\ entries[req[a].path].kind = "Absent")

C8_OneWins(a, b) ==
    \/ req[a].result = "Ok" /\ req[b].result = "MissingComponent"
    \/ req[b].result = "Ok" /\ req[a].result = "NotEmpty"

\* C8 as stated: the store never holds D/x without D, and either rmdir
\* succeeds and mkdir fails with MissingComponent, or mkdir succeeds and rmdir
\* fails with NotEmpty.
C8_Original ==
    \A a \in Threads, b \in Threads :
        C8_Case(a, b) => (C8_NoOrphan(a, b) /\ C8_OneWins(a, b))

\* C8 amended: the store never holds D/x without D and the two calls never
\* both succeed; when each call would succeed if issued alone, either rmdir
\* succeeds and mkdir fails with MissingComponent, or mkdir succeeds and rmdir
\* fails with NotEmpty.
C8_RmdirMkdirExclude ==
    \A a \in Threads, b \in Threads :
        C8_Case(a, b) =>
            /\ C8_NoOrphan(a, b)
            /\ ~(req[a].result = "Ok" /\ req[b].result = "Ok")
            /\ (req[a].solo = "Ok" /\ req[b].solo = "Ok") => C8_OneWins(a, b)

C8_Witness ==
    \E a \in Threads, b \in Threads :
        /\ C8_Case(a, b)
        /\ req[a].solo = "Ok" /\ req[b].solo = "Ok"
        /\ req[a].result = "Ok" /\ req[b].result = "MissingComponent"


\* ------------------------------------------------- claims: single caller

\* The direct children of directory d that the store holds.
Children(e, d) == {k \in Present(e) : Len(k) = Len(d) + 1 /\ ParentOf(k) = d}

HasChild(e, p) == e[p].kind = "Dir" /\ Children(e, p) # {}

\* The requester may search every proper ancestor of path, the parent included.
Searchable(e, current_user, path) ==
    \A i \in 0..(Len(path) - 1) :
        /\ e[SubSeq(path, 1, i)].kind = "Dir"
        /\ can_execute(current_user, e[SubSeq(path, 1, i)].perms)

\* C1: after any sequence of mkdir and rmdir calls, every stored directory's
\* children_count is the number of stored entries exactly one component below it.
C1_ChildrenCountConsistent ==
    \A d \in Present(entries) :
        entries[d].kind = "Dir" =>
            entries[d].children_count = Cardinality(Children(entries, d))

C1_Witness ==
    /\ last.op = "rmdir"
    /\ last.result = "Ok"
    /\ \E d \in Present(entries) : entries[d].children_count >= 1

\* C3: on a fresh FileSystem under the default identity, mkdir /a, mkdir /a,
\* rmdir /a, rmdir /a return Ok, AlreadyExists, Ok, NoSuchFileOrDirectory.
C3_ScenarioA ==
    (run.on /\ Len(run.results) = Len(ScenarioA)) =>
        run.results = <<"Ok", "AlreadyExists", "Ok", "NoSuchFileOrDirectory">>

\* C4: a new FileSystem holds the root alone, empty, owned by 0/0, with
\* rwx for the owner and exactly r-x for group and for other; the current
\* identity is not user 0.
C4_InitialState ==
    (run.on /\ run.results = <<>>) =>
        /\ Present(entries) = {RootKey}
        /\ entries[RootKey].kind = "Dir"
        /\ entries[RootKey].children_count = 0
        /\ entries[RootKey].perms.userinfo = [user |-> 0, group |-> 0]
        /\ LET mode == entries[RootKey].perms.mode
           IN  /\ Contains(mode, RUSR) /\ Contains(mode, WUSR) /\ Contains(mode, XUSR)
               /\ Contains(mode, RGRP) /\ ~Contains(mode, WGRP) /\ Contains(mode, XGRP)
               /\ Contains(mode, ROTH) /\ ~Contains(mode, WOTH) /\ Contains(mode, XOTH)
        /\ DefaultUser.user # 0

\* C5: in every reachable state and for every identity, mkdir of the root
\* fails with AlreadyExists and rmdir of the root with Busy, and the root is
\* in the store as a Dir.
C5_RootInvariant ==
    /\ entries[RootKey].kind = "Dir"
    /\ \A u \in UserInfos :
        /\ mkdir_check(entries, u, RootKey) = "AlreadyExists"
        /\ rmdir_check(entries, u, RootKey) = "Busy"
    /\ (last.op = "mkdir" /\ last.path = RootKey) => last.result = "AlreadyExists"
    /\ (last.op = "rmdir" /\ last.path = RootKey) => last.result = "Busy"

C5_Witness ==
    /\ last.op = "rmdir"
    /\ last.path = RootKey
    /\ last.user = RootOwner
    /\ last.result = "Busy"
    /\ entries[RootKey].children_count = 0

\* C6 as stated: rmdir of a directory with a direct child fails with NotEmpty
\* whatever the identity and the permission bits, and changes nothing.
C6_Original ==
    [][(last'.op = "rmdir" /\ HasChild(entries, last'.path)) =>
            (last'.result = "NotEmpty" /\ entries' = entries)]_vars

\* C6 amended: rmdir of a directory with a direct child never succeeds and
\* changes nothing; it fails with NotEmpty whenever the target is not the root
\* and the requester may search every proper ancestor (whatever the write
\* permission on the parent), with NoSearchPerms when an ancestor refuses the
\* search, and with Busy on the root.
C6_NotEmptyAfterResolution ==
    [][(last'.op = "rmdir" /\ HasChild(entries, last'.path)) =>
            /\ entries' = entries
            /\ last'.result =
                 IF last'.path = RootKey THEN "Busy"
                 ELSE IF Searchable(entries, last'.user, last'.path) THEN "NotEmpty"
                 ELSE "NoSearchPerms"]_vars

C6_Witness ==
    /\ last.op = "rmdir"
    /\ last.result = "NotEmpty"
    /\ HasChild(entries, last.path)
    /\ ~can_write(last.user, entries[ParentOf(last.path)].perms)

\* The case of C7: a non-root target under an existing parent directory, absent
\* for mkdir and an empty directory for rmdir, asked for by a requester who is
\* neither the parent's owning user nor in its owning group, the parent's
\* other-write bit being unset.
C7_Case(e, call) ==
    /\ call.op \in {"mkdir", "rmdir"}
    /\ call.path # RootKey
    /\ e[ParentOf(call.path)].kind = "Dir"
    /\ call.op = "mkdir" => e[call.path].kind = "Absent"
    /\ call.op = "rmdir" => (e[call.path].kind = "Dir" /\ e[call.path].children_count = 0)
    /\ call.user.user # e[ParentOf(call.path)].perms.userinfo.user
    /\ call.user.group # e[ParentOf(call.path)].perms.userinfo.group
    /\ ~Contains(e[ParentOf(call.path)].perms.mode, WOTH)

\* C7 as stated: such a call always fails with NoWritePerms.
C7_Original ==
    [][C7_Case(entries, last') => last'.result = "NoWritePerms"]_vars

\* C7 amended: such a call always fails and changes nothing: with NoWritePerms
\* when the requester may search every proper ancestor of the target (the
\* parent included), and with NoSearchPerms otherwise.
C7_NoWritePermsAfterResolution ==
    [][C7_Case(entries, last') =>
            /\ entries' = entries
            /\ last'.result = IF Searchable(entries, last'.user, last'.path)
                              THEN "NoWritePerms" ELSE "NoSearchPerms"]_vars

C7_Witness ==
    /\ C7_Case(entries, last)
    /\ last.op = "mkdir"
    /\ last.result = "NoWritePerms"

\* C10: a successful mkdir adds one Dir at the path, with the given mode, the
\* caller as owner and no children, raises the parent's children_count by
\* one, and leaves every other entry as it was.
C10_MkdirFrame ==
    [][(last'.op = "mkdir" /\ last'.result = "Ok") =>
            LET path == last'.path
                parent_path == ParentOf(last'.path)
            IN  /\ path # RootKey
                /\ entries[path] = Absent
                /\ entries'[path] = Dir(Perms(last'.mode, last'.user), 0)
                /\ entries[parent_path].kind = "Dir"
                /\ entries'[parent_path] =
                     [entries[parent_path] EXCEPT !.children_count = @ + 1]
                /\ \A k \in Keys \ {path, parent_path} : entries'[k] = entries[k]]_vars

C10_Witness ==
    /\ last.op = "mkdir"
    /\ last.result = "Ok"
    /\ Len(last.path) = 2
    /\ entries[last.path].perms.userinfo = last.user
    /\ entries[ParentOf(last.path)].perms.userinfo # last.user

\* ------------------------------------------------- claims: port allocator

\* C11: after any sequence of specific_port, ephemeral_port and deallocate
\* calls no port is held by two live tokens; the allocated set is the set of
\* ports of live tokens; specific_port(p) fails, with AlreadyInUse(p), exactly
\* when a live token for p existed; and a port leaves the allocated set only
\* in the deallocate call that consumes its token.
C11_OneTokenPerPort ==
    /\ \A p \in Ports : live[p] <= 1
    /\ allocated = {p \in Ports : live[p] > 0}
    /\ port_last.op = "specific_port" =>
         /\ port_last.result = AlreadyInUse(port_last.port)
              <=> port_last.live_before[port_last.port] > 0
         /\ port_last.result = Token(port_last.port)
              <=> port_last.live_before[port_last.port] = 0
    /\ port_last.op # "none" =>
         \A p \in port_last.allocated_before \ allocated :
            port_last.op = "deallocate" /\ port_last.port = p
    /\ port_last.op # "none" => port_last.result.kind # "Panic"

\* A refused specific_port on a held port, while another port is held too.
C11_Witness ==
    /\ port_last.op = "specific_port"
    /\ port_last.result.kind = "AlreadyInUse"
    /\ Cardinality(allocated) >= 2

\* C18: ephemeral_port returns a token for a port of the ephemeral range that
\* was free before the call whenever the range has a free port, returns
\* NoAvailableFreePorts only when the whole range is allocated, never returns
\* AlreadyInUse, and changes the allocation of no other port.
C18_EphemeralPort ==
    port_last.op = "ephemeral_port" =>
        LET before == port_last.allocated_before
            free == EphemeralRange \ before
            r == port_last.result
        IN  /\ r.kind \in {"Ok", "NoAvailableFreePorts"}
            /\ free # {} => r.kind = "Ok" /\ r.port \in free
            /\ r.kind = "NoAvailableFreePorts" => free = {} /\ allocated = before
            /\ r.kind = "Ok" => allocated = before \cup {r.port}

\* Both ends of the claim: the last free port of the range was just handed
\* out, with ports outside the range held too.
C18_Witness ==
    /\ port_last.op = "ephemeral_port"
    /\ port_last.result.kind = "Ok"
    /\ EphemeralRange \subseteq allocated
    /\ allocated \ EphemeralRange # {}

\* The range is exhausted and the call said so.
C18_WitnessExhausted ==
    /\ port_last.op = "ephemeral_port"
    /\ port_last.result.kind = "NoAvailableFreePorts"

\* ------------------------------------------ claims: the store as a tree

\* C15: in every state reachable by mkdir and rmdir from a fresh FileSystem
\* the store is prefix-closed: every stored entry with a non-empty key has its
\* key without the last component in the store too, as a Dir.
C15_PrefixClosed ==
    \A k \in Present(entries) : k # RootKey => entries[ParentOf(k)].kind = "Dir"

\* A directory two levels down is stored, and an rmdir of its parent was just
\* refused.
C15_Witness ==
    /\ entries[<<"a", "b">>].kind = "Dir"
    /\ last.op = "rmdir"
    /\ last.path = <<"a">>
    /\ last.result = "NotEmpty"

\* C16: whenever rmdir passes its error checks, the parent's children_count is
\* at least 1 before the decrement, the target key is in the store, and the
\* entry removed is a Dir with children_count 0: the call returns Ok and none
\* of its internal checks fires.
C16_RmdirChecksNeverFire ==
    [][(last'.op = "rmdir" /\ last'.result \in {"Ok", "Panic"}) =>
            LET path == last'.path
            IN  /\ path # RootKey
                /\ entries[ParentOf(path)].kind = "Dir"
                /\ entries[ParentOf(path)].children_count >= 1
                /\ entries[path].kind = "Dir"
                /\ entries[path].children_count = 0
                /\ last'.result = "Ok"
                /\ entries'[path] = Absent]_vars

\* An rmdir went through under a parent that counted two children.
C16_Witness ==
    /\ last.op = "rmdir"
    /\ last.result = "Ok"
    /\ Len(last.path) = 1
    /\ entries[RootKey].children_count = 1

\* ------------------------------------------- claims: resolution and errors

\* What stops a search at the ancestor stored under key k, if anything does.
Refusal(e, current_user, k) ==
    IF e[k].kind = "Absent" THEN "MissingComponent"
    ELSE IF e[k].kind = "File" THEN "ComponentNotADirectory"
    ELSE IF ~can_execute(current_user, e[k].perms) THEN "NoSearchPerms"
    ELSE "None"

\* The refusal of the first proper ancestor of path that has one, from the
\* root down.
FirstRefusal(e, current_user, path) ==
    LET refused == {j \in 0..(Len(path) - 1) :
                       Refusal(e, current_user, SubSeq(path, 1, j)) # "None"}
    IN  IF refused = {} THEN "None"
        ELSE Refusal(e, current_user,
                     SubSeq(path, 1, CHOOSE j \in refused : \A i \in refused : j <= i))

\* C12: a mkdir or rmdir on a non-root path succeeds only if every proper
\* ancestor of the target is stored, is a Dir and grants the requester search
\* permission; the first ancestor from the root that is not decides the error:
\* MissingComponent if absent, ComponentNotADirectory if a File, NoSearchPerms
\* if it refuses the search.
C12_FirstAncestorDecides ==
    [][(last'.op \in {"mkdir", "rmdir"} /\ last'.path # RootKey) =>
            LET first == FirstRefusal(entries, last'.user, last'.path)
            IN  /\ last'.result = "Ok" => first = "None"
                /\ first # "None" => last'.result = first]_vars

\* The root let the requester through and the next ancestor is a File.
C12_Witness ==
    /\ last.op \in {"mkdir", "rmdir"}
    /\ Len(last.path) = 2
    /\ last.result = "ComponentNotADirectory"
    /\ entries[<<last.path[1]>>].kind = "File"
    /\ can_execute(last.user, entries[RootKey].perms)

\* The name of the first failure of the list that holds, "None" if none does.
FirstOf(failures) ==
    LET holding == {i \in DOMAIN failures : failures[i][2]}
    IN  IF holding = {} THEN "None"
        ELSE failures[CHOOSE i \in holding : \A j \in holding : i <= j][1]

\* The parent of path is stored and refuses the requester the write.
ParentRefusesWrite(e, current_user, path) ==
    /\ path # RootKey
    /\ e[ParentOf(path)].kind # "Absent"
    /\ ~can_write(current_user, e[ParentOf(path)].perms)

\* The failure conditions of mkdir in their documented order, each with
\* whether it holds in store e.
MkdirFailures(e, current_user, path) ==
    << <<FirstRefusal(e, current_user, path), FirstRefusal(e, current_user, path) # "None">>,
       <<"AlreadyExists", path = RootKey \/ e[path].kind # "Absent">>,
       <<"NoWritePerms", ParentRefusesWrite(e, current_user, path)>> >>

\* The failure conditions of rmdir in their documented order.
RmdirFailures(e, current_user, path) ==
    << <<FirstRefusal(e, current_user, path), FirstRefusal(e, current_user, path) # "None">>,
       <<"Busy", path = RootKey>>,
       <<"NoSuchFileOrDirectory", path # RootKey /\ e[path].kind = "Absent">>,
       <<"NotADirectory", e[path].kind = "File">>,
       <<"NotEmpty", e[path].kind = "Dir" /\ e[path].children_count > 0>>,
       <<"NoWritePerms", ParentRefusesWrite(e, current_user, path)>> >>

\* C13: when several failure conditions hold at once, mkdir and rmdir report
\* the first in their step order: for mkdir the path-resolution error, then
\* AlreadyExists, then NoWritePerms; for rmdir the path-resolution error, then
\* Busy, NoSuchFileOrDirectory, NotADirectory, NotEmpty, NoWritePerms. A call
\* for which none holds returns no error.
C13_FirstFailureReported ==
    [][last'.op \in {"mkdir", "rmdir"} =>
            LET failures == IF last'.op = "mkdir"
                            THEN MkdirFailures(entries, last'.user, last'.path)
                            ELSE RmdirFailures(entries, last'.user, last'.path)
            IN  IF FirstOf(failures) = "None"
                THEN last'.result \in {"Ok", "Panic"}
                ELSE last'.result = FirstOf(failures)]_vars

\* mkdir of an existing target under a parent the requester may search but
\* not write: AlreadyExists, not NoWritePerms.
C13_Witness ==
    /\ last.op = "mkdir"
    /\ last.path # RootKey
    /\ entries[last.path].kind # "Absent"
    /\ ~can_write(last.user, entries[ParentOf(last.path)].perms)
    /\ last.result = "AlreadyExists"

\* rmdir of an absent target under such a parent: NoSuchFileOrDirectory.
C13_WitnessAbsent ==
    /\ last.op = "rmdir"
    /\ last.path # RootKey
    /\ entries[last.path].kind = "Absent"
    /\ ~can_write(last.user, entries[ParentOf(last.path)].perms)
    /\ last.result = "NoSuchFileOrDirectory"

\* C14: a mkdir or rmdir call that returns an error leaves the entry store as
\* it was before the call: no entry added or removed, no children_count and no
\* permission changed.
C14_ErrorsChangeNothing ==
    [][(last'.op \in {"mkdir", "rmdir"} /\ last'.result # "Ok") =>
            entries' = entries]_vars

\* A mkdir two levels down was refused the write on a parent that has no child.
C14_Witness ==
    /\ last.op = "mkdir"
    /\ last.result = "NoWritePerms"
    /\ Len(last.path) = 2
    /\ entries[ParentOf(last.path)].children_count = 0

\* ----------------------------------------------- claims: the child count

\* C17: children_count never wraps around: it stays within its width and
\* equal to the number of stored children, and a mkdir that passes its error
\* checks under a parent whose count is at the maximum aborts instead of
\* returning, with no entry inserted and the parent's count unchanged.
C17_NoWrapAround ==
    [][/\ \A d \in Present(entries') :
            entries'[d].kind = "Dir" =>
                /\ entries'[d].children_count <= CountMax
                /\ entries'[d].children_count = Cardinality(Children(entries', d))
       /\ (/\ last'.op = "mkdir"
           /\ FirstOf(MkdirFailures(entries, last'.user, last'.path)) = "None"
           /\ entries[ParentOf(last'.path)].children_count = CountMax)
            => (last'.result = "Panic" /\ entries' = entries)]_vars

\* The root counts as many children as its counter can hold and the mkdir of
\* one more has aborted.
C17_Witness ==
    /\ last.op = "mkdir"
    /\ last.result = "Panic"
    /\ entries[last.path].kind = "Absent"
    /\ entries[RootKey].children_count = CountMax

\* ------------------------------------------------- claims: the lock

\* C19: a mkdir or rmdir call holds the exclusive lock on the store from
\* before resolution until it returns, and releases it on every return path;
\* with threads calling on one shared FileSystem and a fair lock, every
\* issued call eventually returns.
C19_EveryCallReturns ==
    /\ [](\A t \in Threads : lock = t <=> pc[t] \in {"resolve", "commit"})
    /\ \A t \in Threads : (pc[t] = "write") ~> (pc[t] = "returned")

\* A call that had to wait for the lock has returned an error and the lock is
\* free again.
C19_Witness ==
    \E t \in Threads :
        /\ pc[t] = "returned"
        /\ req[t].raced
        /\ req[t].result \notin {"Ok", "pending"}
        /\ lock = NoThread
        /\ \E u \in Threads \ {t} : pc[u] = "write"

\* ------------------------------------------- claims: never above the root

\* C20: empty and ".." components at the start of a component sequence are
\* skipped by the resolver: a sequence made only of them resolves to the root
\* (no parent, the root entry as terminal; mkdir gives AlreadyExists and rmdir
\* Busy), and a path behind them resolves to the same error, or the same
\* parent and terminal, as the path alone, its parent being the key one
\* component shorter and never anything above the root.
C20_NeverAboveRoot ==
    walked.state = "resolved" =>
        LET k == walked.path
            first == FirstRefusal(entries, walked.user, k)
        IN  /\ k = RootKey =>
                /\ walked.found =
                     [err |-> "None", parent_path |-> NoParent, entry |-> entries[RootKey]]
                /\ walked.mkdir = "AlreadyExists"
                /\ walked.rmdir = "Busy"
            /\ walked.found = parent_and_entry_mut(entries, k, walked.user)
            /\ walked.mkdir = mkdir_check(entries, walked.user, k)
            /\ walked.rmdir = rmdir_check(entries, walked.user, k)
            /\ walked.found.err = first
            /\ (first = "None" /\ k # RootKey) =>
                /\ walked.found.parent_path = ParentOf(k)
                /\ walked.found.entry = entries[k]

\* A stored directory two levels down was resolved from behind an empty and
\* a ".." component.
C20_Witness ==
    /\ walked.state = "resolved"
    /\ walked.lead = <<"", "..">>
    /\ Len(walked.path) = 2
    /\ walked.found.err = "None"
    /\ walked.found.entry.kind = "Dir"
    /\ walked.found.parent_path = <<walked.path[1]>>

\* A sequence of nothing but ".." was resolved to the root.
C20_WitnessRoot ==
    /\ walked.state = "resolved"
    /\ walked.lead = <<"..", "..">>
    /\ walked.path = RootKey
    /\ walked.found.entry = entries[RootKey]

\* ------------------------------------------- claims: the two resolvers

\* C21: the read-only resolver and the mutable resolver agree: for every
\* store, path and requester they return the same error, or the same parent
\* path, the same parent directory and the same terminal entry (present or
\* absent); and whenever the mutable resolver reports a parent, the parent key
\* and the terminal key it looks up together are distinct.
C21_ResolversAgree ==
    walked.state = "resolved" =>
        /\ walked.read.err = walked.found.err
        /\ walked.read.parent_path = walked.found.parent_path
        /\ walked.read.parent_dir = walked.found_dir
        /\ walked.read.entry = walked.found.entry
        /\ (walked.found.err = "None" /\ walked.found.parent_path # NoParent) =>
            /\ walked.looked # <<>>
            /\ walked.looked[1] = walked.found.parent_path
            /\ walked.looked[1] # walked.looked[2]
            /\ walked.found_dir.kind = "Dir"

\* Both resolvers went two levels down, behind a directory that is not the
\* root, to an absent terminal.
C21_Witness ==
    /\ walked.state = "resolved"
    /\ Len(walked.path) = 2
    /\ walked.read.err = "None"
    /\ walked.read.parent_path = <<walked.path[1]>>
    /\ walked.read.parent_dir.kind = "Dir"
    /\ walked.found.entry = Absent

====
